---- MODULE Spec2Model ----
(***************************************************************************)
(* Model of the djb_hash crate: six streaming hashers (X33a, Djbx33a,      *)
(* X33aU32, X33aU32Php, X33x, X33xU32), each holding one fixed-width       *)
(* unsigned integer `hash`.                                                *)
(*                                                                         *)
(* Machine words are wider than the integers of the model checker, so a    *)
(* u32 is kept as 2 and a u64 as 4 little-endian limbs of 16 bits each.    *)
(* Every primitive (<<, wrapping_add, ^, |, as) is computed limb by limb   *)
(* with explicit carries, so the word width and the bits that fall off     *)
(* the top are part of the model.                                          *)
(***************************************************************************)
EXTENDS Integers, Sequences, FiniteSets, TLC

VARIABLES acc, ctor, salt, fed, arglen, op, ret,
          rel, pa, pb, pseed, psplit

\* the two accumulators of a caller that compares them
pvars == <<rel, pa, pb, pseed, psplit>>

vars == <<acc, ctor, salt, fed, arglen, op, ret, pvars>>

----------------------------------------------------------------------------
(* Bounds of the model *)

\* largest number of bytes handed to one write call
MaxChunk == 2
\* largest number of bytes fed to one accumulator over its life
MaxFed == 2
\* largest number of bytes fed to each of two accumulators that are compared
MaxPairFed == 2

\* the byte values the model feeds: both ends of u8 and the bytes of the
\* test vectors "Ez" = [69,122] and "FY" = [70,89]
Bytes == {0, 69, 70, 89, 122, 255}

----------------------------------------------------------------------------
(* Fixed-width unsigned words *)

Base == 2^16

\* number of 16-bit limbs of a u32 and of a u64
LimbsU32 == 2
LimbsU64 == 4

IsWord(x, n) == /\ DOMAIN x = 1..n
                /\ \A i \in 1..n : x[i] \in 0..(Base - 1)

\* the outcome of a primitive that panicked; it is no word of any width
Panic == <<>>

\* `b as u32`, `b as u64` for a byte b: zero extension
U8AsU32(b) == <<b, 0>>
U8AsU64(b) == <<b, 0, 0, 0>>

\* `x as u64` for a u32 x: zero extension
U32AsU64(x) == IF x = Panic THEN Panic ELSE <<x[1], x[2], 0, 0>>

\* `x << n`: the bits shifted past the top limb are dropped; a shift by
\* the width or more is an overflow (a panic in a checked build)
Limb(x, j) == IF j < 1 THEN 0 ELSE x[j]

Shl(x, n) ==
    IF n >= 16 * Len(x) THEN Panic
    ELSE LET q == n \div 16
             r == n % 16
         IN  [i \in 1..Len(x) |->
                ((Limb(x, i - q) * 2^r) % Base)
                + ((Limb(x, i - q - 1) * 2^r) \div Base)]

RECURSIVE CarryInto(_, _, _)
CarryInto(x, y, i) ==
    IF i = 1 THEN 0
    ELSE (x[i-1] + y[i-1] + CarryInto(x, y, i-1)) \div Base

\* `x.wrapping_add(y)`: the carry out of the top limb is dropped
WrappingAdd(x, y) ==
    IF x = Panic \/ y = Panic THEN Panic
    ELSE [i \in 1..Len(x) |-> (x[i] + y[i] + CarryInto(x, y, i)) % Base]

RECURSIVE XorNat(_, _)
XorNat(a, b) ==
    IF a = 0 THEN b
    ELSE IF b = 0 THEN a
    ELSE ((a + b) % 2) + 2 * XorNat(a \div 2, b \div 2)

RECURSIVE OrNat(_, _)
OrNat(a, b) ==
    IF a = 0 THEN b
    ELSE IF b = 0 THEN a
    ELSE (IF a % 2 = 1 \/ b % 2 = 1 THEN 1 ELSE 0) + 2 * OrNat(a \div 2, b \div 2)

\* bug: x.saturating_add(y), which stops at the largest word
SaturatingAdd(x, y) ==
    IF x = Panic \/ y = Panic THEN Panic
    ELSE IF (x[Len(x)] + y[Len(x)] + CarryInto(x, y, Len(x))) \div Base > 0
         THEN [i \in 1..Len(x) |-> Base - 1]
         ELSE [i \in 1..Len(x) |-> (x[i] + y[i] + CarryInto(x, y, i)) % Base]

\* `x ^ y`
BitXor(x, y) ==
    IF x = Panic \/ y = Panic THEN Panic
    ELSE [i \in 1..Len(x) |-> XorNat(x[i], y[i])]

\* `x | y`
BitOr(x, y) ==
    IF x = Panic \/ y = Panic THEN Panic
    ELSE [i \in 1..Len(x) |-> OrNat(x[i], y[i])]

----------------------------------------------------------------------------
(* The six hashers.  Each operator takes the value of the field `hash`     *)
(* (and the call's argument) and yields what the method leaves or returns. *)

\* X33a (u64, hash * 33 + byte)
X33a_new == <<5381, 0, 0, 0>>

X33a_new_with_salt(s) == s

X33a_finish(hash) == hash

\* bug: shifts by 6, so multiplies by 65
X33a_step_Shl6(hash, byte) ==
    WrappingAdd(WrappingAdd(Shl(hash, 6), hash), U8AsU64(byte))

\* bug: shifts by 4, so multiplies by 17
X33a_step_Shl4(hash, byte) ==
    WrappingAdd(WrappingAdd(Shl(hash, 4), hash), U8AsU64(byte))

\* bug: `hash.rotate_left(5)` for `hash << 5`, the top bits come back in
X33a_step_RotateLeft(hash, byte) ==
    WrappingAdd(WrappingAdd(BitOr(Shl(hash, 5),
                                  <<hash[LimbsU64] \div 2^11, 0, 0, 0>>),
                            hash),
                U8AsU64(byte))

X33a_step(hash, byte) ==
    WrappingAdd(WrappingAdd(Shl(hash, 5), hash), U8AsU64(byte))

\* bug: the length of the slice is hashed before its bytes
RECURSIVE X33a_write_Loop(_, _)
X33a_write_Loop(hash, bytes) ==
    IF bytes = <<>> THEN hash
    ELSE X33a_write_Loop(X33a_step(hash, Head(bytes)), Tail(bytes))

X33a_write_LenPrefix(hash, bytes) ==
    X33a_write_Loop(X33a_step(hash, Len(bytes)), bytes)

RECURSIVE X33a_write(_, _)
X33a_write(hash, bytes) ==
    IF bytes = <<>> THEN hash
    ELSE X33a_write(X33a_step(hash, Head(bytes)), Tail(bytes))

\* Djbx33a (u64, hash * 33 + byte, default seed only)
Djbx33a_new == <<5381, 0, 0, 0>>

Djbx33a_finish(hash) == hash

\* bug: the hash itself is not added, so the multiplier is 32
Djbx33a_step_Times32(hash, byte) ==
    WrappingAdd(Shl(hash, 5), U8AsU64(byte))

Djbx33a_step(hash, byte) ==
    WrappingAdd(WrappingAdd(Shl(hash, 5), hash), U8AsU64(byte))

RECURSIVE Djbx33a_write(_, _)
Djbx33a_write(hash, bytes) ==
    IF bytes = <<>> THEN hash
    ELSE Djbx33a_write(Djbx33a_step(hash, Head(bytes)), Tail(bytes))

\* X33aU32 (u32, hash * 33 + byte)
X33aU32_new == <<5381, 0>>

X33aU32_new_with_salt(s) == s

X33aU32_finish_u32(hash) == hash

X33aU32_finish(hash) == U32AsU64(hash)

\* bug: saturating instead of wrapping addition
X33aU32_step_Saturating(hash, byte) ==
    SaturatingAdd(SaturatingAdd(Shl(hash, 5), hash), U8AsU32(byte))

\* bug: the byte is XORed in, as in X33xU32
X33aU32_step_Xor(hash, byte) ==
    BitXor(WrappingAdd(Shl(hash, 5), hash), U8AsU32(byte))

X33aU32_step(hash, byte) ==
    WrappingAdd(WrappingAdd(Shl(hash, 5), hash), U8AsU32(byte))

RECURSIVE X33aU32_write(_, _)
X33aU32_write(hash, bytes) ==
    IF bytes = <<>> THEN hash
    ELSE X33aU32_write(X33aU32_step(hash, Head(bytes)), Tail(bytes))

\* X33aU32Php (u32, hash * 33 + byte, high bit set on output)
\* 0x80000000u32
HighBit == <<0, 32768>>

X33aU32Php_new == <<5381, 0>>

\* bug: the salt is dropped, the default seed is used
X33aU32Php_new_with_salt_IgnoresSalt(s) == <<5381, 0>>

X33aU32Php_new_with_salt(s) == s

\* bug: the high bit is not set
X33aU32Php_finish_u32_NoOr(hash) == hash

X33aU32Php_finish_u32(hash) == BitOr(hash, HighBit)

\* bug: the high bit is set by finish_u32 only
X33aU32Php_finish_NoOr(hash) == U32AsU64(hash)

X33aU32Php_finish(hash) == U32AsU64(BitOr(hash, HighBit))

\* bug: `hash.rotate_left(5)` for `hash << 5`, bit 31 comes back as bit 4
X33aU32Php_step_RotateLeft(hash, byte) ==
    WrappingAdd(WrappingAdd(BitOr(Shl(hash, 5),
                                  <<hash[LimbsU32] \div 2^11, 0>>),
                            hash),
                U8AsU32(byte))

X33aU32Php_step(hash, byte) ==
    WrappingAdd(WrappingAdd(Shl(hash, 5), hash), U8AsU32(byte))

\* bug: every call starts again from the default seed
RECURSIVE X33aU32Php_write_Loop(_, _)
X33aU32Php_write_Loop(hash, bytes) ==
    IF bytes = <<>> THEN hash
    ELSE X33aU32Php_write_Loop(X33aU32Php_step(hash, Head(bytes)), Tail(bytes))

X33aU32Php_write_Restart(hash, bytes) ==
    X33aU32Php_write_Loop(<<5381, 0>>, bytes)

RECURSIVE X33aU32Php_write(_, _)
X33aU32Php_write(hash, bytes) ==
    IF bytes = <<>> THEN hash
    ELSE X33aU32Php_write(X33aU32Php_step(hash, Head(bytes)), Tail(bytes))

\* X33x (u64, (hash * 33) ^ byte)
X33x_new == <<5381, 0, 0, 0>>

\* bug: the salt is made odd, as the documentation advises
X33x_new_with_salt_ForcesOdd(s) == BitOr(s, <<1, 0, 0, 0>>)

X33x_new_with_salt(s) == s

X33x_finish(hash) == hash

\* bug: the byte is added, as in X33a
X33x_step_Add(hash, byte) ==
    WrappingAdd(WrappingAdd(Shl(hash, 5), hash), U8AsU64(byte))

X33x_step(hash, byte) ==
    BitXor(WrappingAdd(Shl(hash, 5), hash), U8AsU64(byte))

RECURSIVE X33x_write(_, _)
X33x_write(hash, bytes) ==
    IF bytes = <<>> THEN hash
    ELSE X33x_write(X33x_step(hash, Head(bytes)), Tail(bytes))

\* X33xU32 (u32, (hash * 33) ^ byte)
X33xU32_new == <<5381, 0>>

X33xU32_new_with_salt(s) == s

X33xU32_finish_u32(hash) == hash

X33xU32_finish(hash) == U32AsU64(hash)

\* bug: the byte is mixed into the addend, not into the sum
X33xU32_step_XorAddend(hash, byte) ==
    WrappingAdd(Shl(hash, 5), BitXor(hash, U8AsU32(byte)))

X33xU32_step(hash, byte) ==
    BitXor(WrappingAdd(Shl(hash, 5), hash), U8AsU32(byte))

RECURSIVE X33xU32_write(_, _)
X33xU32_write(hash, bytes) ==
    IF bytes = <<>> THEN hash
    ELSE X33xU32_write(X33xU32_step(hash, Head(bytes)), Tail(bytes))

----------------------------------------------------------------------------
(* One accumulator and its caller *)

Kinds == {"X33a", "Djbx33a", "X33aU32", "X33aU32Php", "X33x", "X33xU32"}

\* the hashers that implement HasherU32
KindsU32 == {"X33aU32", "X33aU32Php", "X33xU32"}

\* the hashers that have new_with_salt
KindsSalted == Kinds \ {"Djbx33a"}

Limbs(k) == IF k \in KindsU32 THEN LimbsU32 ELSE LimbsU64

New(k) ==
    CASE k = "X33a"       -> X33a_new
      [] k = "Djbx33a"    -> Djbx33a_new
      [] k = "X33aU32"    -> X33aU32_new
      [] k = "X33aU32Php" -> X33aU32Php_new
      [] k = "X33x"       -> X33x_new
      [] k = "X33xU32"    -> X33xU32_new

NewWithSalt(k, s) ==
    CASE k = "X33a"       -> X33a_new_with_salt(s)
      [] k = "X33aU32"    -> X33aU32_new_with_salt(s)
      [] k = "X33aU32Php" -> X33aU32Php_new_with_salt(s)
      [] k = "X33x"       -> X33x_new_with_salt(s)
      [] k = "X33xU32"    -> X33xU32_new_with_salt(s)

Write(k, hash, bytes) ==
    CASE k = "X33a"       -> X33a_write(hash, bytes)
      [] k = "Djbx33a"    -> Djbx33a_write(hash, bytes)
      [] k = "X33aU32"    -> X33aU32_write(hash, bytes)
      [] k = "X33aU32Php" -> X33aU32Php_write(hash, bytes)
      [] k = "X33x"       -> X33x_write(hash, bytes)
      [] k = "X33xU32"    -> X33xU32_write(hash, bytes)

Finish(k, hash) ==
    CASE k = "X33a"       -> X33a_finish(hash)
      [] k = "Djbx33a"    -> Djbx33a_finish(hash)
      [] k = "X33aU32"    -> X33aU32_finish(hash)
      [] k = "X33aU32Php" -> X33aU32Php_finish(hash)
      [] k = "X33x"       -> X33x_finish(hash)
      [] k = "X33xU32"    -> X33xU32_finish(hash)

FinishU32(k, hash) ==
    CASE k = "X33aU32"    -> X33aU32_finish_u32(hash)
      [] k = "X33aU32Php" -> X33aU32Php_finish_u32(hash)
      [] k = "X33xU32"    -> X33xU32_finish_u32(hash)

\* the salts a caller passes: 0 (even, not prime), the default seed, the
\* salt 5387 of the examples, all ones, and for the 32-bit hashers the top
\* bit alone
SaltsU32 == { <<0, 0>>, <<5381, 0>>, <<5387, 0>>, <<0, 32768>>,
              <<65535, 65535>> }
SaltsU64 == { <<0, 0, 0, 0>>, <<5381, 0, 0, 0>>, <<5387, 0, 0, 0>>,
              <<65535, 65535, 65535, 65535>> }

Salts(k) == IF k \in KindsU32 THEN SaltsU32 ELSE SaltsU64

ByteSeqs(n) == UNION { [1..m -> Bytes] : m \in 0..n }

\* "abcEzpie".as_bytes() and "abcFYpie".as_bytes()
Texts == { <<97, 98, 99, 69, 122, 112, 105, 101>>,
           <<97, 98, 99, 70, 89, 112, 105, 101>> }

\* acc   : the accumulator, its type and its field `hash`
\* ctor  : the constructor that built it, salt: the argument it was given
\* fed   : every byte written so far, in order
\* arglen : the length of the slice the last call was given (0 for a read)
\* op    : the last call; ret: what it returned
Init ==
    /\ \E k \in Kinds :
          \/ /\ ctor = "new"
             /\ salt = <<>>
             /\ acc = [kind |-> k, hash |-> New(k)]
          \/ /\ k \in KindsSalted
             /\ ctor = "new_with_salt"
             /\ \E s \in Salts(k) :
                   /\ salt = s
                   /\ acc = [kind |-> k, hash |-> NewWithSalt(k, s)]
    /\ fed = <<>>
    /\ arglen = 0
    /\ op = "construct"
    /\ ret = <<>>
    /\ rel = "none"
    /\ pa = [kind |-> "X33a", hash |-> X33a_new, fed |-> <<>>]
    /\ pb = [kind |-> "X33a", hash |-> X33a_new, fed |-> <<>>]
    /\ pseed = <<>>
    /\ psplit = -1

\* fn write(&mut self, bytes: &[u8])
DoWrite ==
    \E bytes \in ByteSeqs(MaxChunk) :
        /\ Len(fed) + Len(bytes) <= MaxFed
        /\ acc' = [acc EXCEPT !.hash = Write(acc.kind, acc.hash, bytes)]
        /\ fed' = fed \o bytes
        /\ arglen' = Len(bytes)
        /\ op' = "write"
        /\ ret' = <<>>
        /\ UNCHANGED <<ctor, salt, pvars>>

\* hasher.write(&input.as_bytes()) on a fresh accumulator, input one of
\* the texts of the examples
DoWriteText ==
    \E bytes \in Texts :
        /\ op = "construct"
        /\ acc' = [acc EXCEPT !.hash = Write(acc.kind, acc.hash, bytes)]
        /\ fed' = fed \o bytes
        /\ arglen' = Len(bytes)
        /\ op' = "write"
        /\ ret' = <<>>
        /\ UNCHANGED <<ctor, salt, pvars>>

\* bug: reading the result starts the accumulator again
DoFinish_Resets ==
    /\ ret' = Finish(acc.kind, acc.hash)
    /\ acc' = [acc EXCEPT !.hash = New(acc.kind)]
    /\ op' = "finish"
    /\ arglen' = 0
    /\ UNCHANGED <<ctor, salt, fed, pvars>>

\* fn finish(&self) -> u64
DoFinish ==
    /\ ret' = Finish(acc.kind, acc.hash)
    /\ op' = "finish"
    /\ arglen' = 0
    /\ UNCHANGED <<acc, ctor, salt, fed, pvars>>

\* bug: the value returned is stored back into the field
DoFinishU32_WritesBack ==
    /\ acc.kind \in KindsU32
    /\ ret' = FinishU32(acc.kind, acc.hash)
    /\ acc' = [acc EXCEPT !.hash = FinishU32(acc.kind, acc.hash)]
    /\ op' = "finish_u32"
    /\ arglen' = 0
    /\ UNCHANGED <<ctor, salt, fed, pvars>>

\* fn finish_u32(&self) -> u32
DoFinishU32 ==
    /\ acc.kind \in KindsU32
    /\ ret' = FinishU32(acc.kind, acc.hash)
    /\ op' = "finish_u32"
    /\ arglen' = 0
    /\ UNCHANGED <<acc, ctor, salt, fed, pvars>>

Next == DoWrite \/ DoWriteText \/ DoFinish \/ DoFinishU32

Spec == Init /\ [][Next]_vars

----------------------------------------------------------------------------
(* Arithmetic the claims are stated in: multiplication by a small number   *)
(* with carries kept, and bitwise operations by bit position.              *)

KindsAdditive == {"X33a", "Djbx33a", "X33aU32", "X33aU32Php"}
KindsXor == {"X33x", "X33xU32"}

Step(k, hash, byte) ==
    CASE k = "X33a"       -> X33a_step(hash, byte)
      [] k = "Djbx33a"    -> Djbx33a_step(hash, byte)
      [] k = "X33aU32"    -> X33aU32_step(hash, byte)
      [] k = "X33aU32Php" -> X33aU32Php_step(hash, byte)
      [] k = "X33x"       -> X33x_step(hash, byte)
      [] k = "X33xU32"    -> X33xU32_step(hash, byte)

\* the number v < 2^16 as a word of n limbs
Lit(v, n) == [i \in 1..n |-> IF i = 1 THEN v ELSE 0]

AllOnes(n) == [i \in 1..n |-> Base - 1]

\* the seed the accumulator was constructed with
Seed == IF ctor = "new" THEN Lit(5381, Limbs(acc.kind)) ELSE salt

RECURSIVE MulCarry(_, _, _, _)
MulCarry(h, m, c, i) ==
    IF i = 1 THEN c
    ELSE (h[i-1] * m + MulCarry(h, m, c, i-1)) \div Base

\* h * m + c, unbounded: one limb more than h
MulAddWide(h, m, c) ==
    [i \in 1..(Len(h) + 1) |->
        IF i <= Len(h) THEN (h[i] * m + MulCarry(h, m, c, i)) % Base
        ELSE MulCarry(h, m, c, i)]

\* x mod 2^(16 n)
Reduce(x, n) == [i \in 1..n |-> x[i]]

\* (h * 33 + b) mod 2^w
RefAdd(h, b) == Reduce(MulAddWide(h, 33, b), Len(h))

BitAt(a, j) == (a \div 2^j) % 2

RefXorLimb(a, b) ==
    LET bit(j) == (BitAt(a, j) + BitAt(b, j)) % 2
    IN  bit(0) + 2*bit(1) + 4*bit(2) + 8*bit(3) + 16*bit(4) + 32*bit(5)
        + 64*bit(6) + 128*bit(7) + 256*bit(8) + 512*bit(9) + 1024*bit(10)
        + 2048*bit(11) + 4096*bit(12) + 8192*bit(13) + 16384*bit(14)
        + 32768*bit(15)

\* ((h * 33) mod 2^w) XOR b, b a byte
RefXor(h, b) ==
    LET p == Reduce(MulAddWide(h, 33, 0), Len(h))
    IN  [i \in 1..Len(h) |-> IF i = 1 THEN RefXorLimb(p[1], b) ELSE p[i]]

RECURSIVE RefFoldAdd(_, _)
RefFoldAdd(h, bytes) ==
    IF bytes = <<>> THEN h
    ELSE RefFoldAdd(RefAdd(h, Head(bytes)), Tail(bytes))

RECURSIVE RefFoldXor(_, _)
RefFoldXor(h, bytes) ==
    IF bytes = <<>> THEN h
    ELSE RefFoldXor(RefXor(h, Head(bytes)), Tail(bytes))

----------------------------------------------------------------------------
(* Claims *)

\* C1: on the additive hashers (X33a, Djbx33a at 64 bits, X33aU32,
\* X33aU32Php at 32 bits) the state after the writes is the left fold of
\* (h * 33 + b) mod 2^w over the bytes written, in order, from the seed;
\* and from every reachable state h and every byte b the shift-add step of
\* the code equals (h * 33 + b) mod 2^w.
C1_AdditiveFold ==
    acc.kind \in KindsAdditive =>
        /\ acc.hash = RefFoldAdd(Seed, fed)
        /\ \A b \in Bytes : Step(acc.kind, acc.hash, b) = RefAdd(acc.hash, b)

\* X33a after two bytes from the seed 2^64 - 1, where every step wraps
C1_Witness ==
    /\ acc.kind = "X33a"
    /\ op = "write"
    /\ salt = AllOnes(LimbsU64)
    /\ Len(fed) = 2

\* C2: on the XOR hashers (X33x at 64 bits, X33xU32 at 32 bits) the state
\* after the writes is the left fold of ((h * 33) mod 2^w) XOR b over the
\* bytes written, in order, from the seed: the product is reduced first
\* and the byte is XORed into the reduced product.
C2_XorFold ==
    acc.kind \in KindsXor =>
        /\ acc.hash = RefFoldXor(Seed, fed)
        /\ \A b \in Bytes : Step(acc.kind, acc.hash, b) = RefXor(acc.hash, b)

\* X33xU32 after [69, 122] from the default seed: 5861786
C2_Witness ==
    /\ acc.kind = "X33xU32"
    /\ op = "write"
    /\ ctor = "new"
    /\ fed = <<69, 122>>
    /\ acc.hash = <<29082, 89>>

\* the unbounded value of one combine step from h with byte b
StepWide(k, h, b) ==
    IF k \in KindsAdditive THEN MulAddWide(h, 33, b)
    ELSE LET p == MulAddWide(h, 33, 0)
         IN  [i \in 1..(Len(h) + 1) |->
                IF i = 1 THEN RefXorLimb(p[1], b) ELSE p[i]]

\* C3: arithmetic wraps and never fails.  In every reachable state the
\* state is a word of the hasher's width, whatever a read returned is a
\* word (of 64 bits from finish, of 32 from finish_u32), and for every
\* byte the next combine step yields a word of that width equal to the
\* unbounded result with its high bits dropped (not the largest word).
C3_WrapsNeverFails ==
    LET n == Limbs(acc.kind) IN
    /\ IsWord(acc.hash, n)
    /\ op = "finish" => IsWord(ret, LimbsU64)
    /\ op = "finish_u32" => IsWord(ret, LimbsU32)
    /\ \A b \in Bytes :
          LET r == Step(acc.kind, acc.hash, b)
              u == StepWide(acc.kind, acc.hash, b)
          IN  /\ IsWord(r, n)
              /\ r = Reduce(u, n)
              /\ (u[n + 1] > 0 /\ Reduce(u, n) # AllOnes(n)) => r # AllOnes(n)

\* a write to a 32-bit hasher whose state was 2^32 - 1: the step wrapped,
\* and the next one wraps again
C3_Witness ==
    /\ acc.kind = "X33aU32"
    /\ op = "write"
    /\ salt = AllOnes(LimbsU32)
    /\ Len(fed) = 1
    /\ \E b \in Bytes : StepWide(acc.kind, acc.hash, b)[LimbsU32 + 1] > 0

\* what the constructor that was called left in `hash`
Constructed ==
    IF ctor = "new" THEN New(acc.kind) ELSE NewWithSalt(acc.kind, salt)

\* C4: streaming equivalence.  However the bytes fed so far were split
\* over write calls, the state (and so what finish and finish_u32 return)
\* is the one a single write of their concatenation leaves on a freshly
\* constructed accumulator.
C4_StreamingEquivalence ==
    LET one == Write(acc.kind, Constructed, fed) IN
    /\ acc.hash = one
    /\ op = "finish" => ret = Finish(acc.kind, one)
    /\ op = "finish_u32" => ret = FinishU32(acc.kind, one)

\* the second of two writes of one byte each, on X33aU32Php
C4_Witness ==
    /\ acc.kind = "X33aU32Php"
    /\ op = "write"
    /\ arglen > 0
    /\ arglen < Len(fed)

RECURSIVE FoldSteps(_, _, _)
FoldSteps(k, h, bytes) ==
    IF bytes = <<>> THEN h
    ELSE FoldSteps(k, Step(k, h, Head(bytes)), Tail(bytes))

\* C5: after any sequence of write, finish and finish_u32 calls the state
\* is the fold of the hasher's combine step from the construction-time
\* seed over all the bytes written so far, in call order; no call sets it
\* to anything else.
C5_StateIsFoldOfFed ==
    acc.hash = FoldSteps(acc.kind, Seed, fed)

\* a finish after two bytes were written to a salted X33a
C5_Witness ==
    /\ acc.kind = "X33a"
    /\ op = "finish"
    /\ ctor = "new_with_salt"
    /\ Len(fed) = 2
    /\ ret = acc.hash

\* C6: finish and finish_u32 are pure reads.  A read changes neither the
\* state nor the record of what was written, it returns what the accessor
\* computes from the state before the call, and a read that follows a read
\* of the same kind returns the same value.  On X33aU32Php the high bit
\* goes into the returned value only.
C6_ReadsArePure ==
    [][ op' \in {"finish", "finish_u32"} =>
          /\ acc' = acc
          /\ fed' = fed
          /\ op' = "finish" => ret' = Finish(acc.kind, acc.hash)
          /\ op' = "finish_u32" => ret' = FinishU32(acc.kind, acc.hash)
          /\ op = op' => ret' = ret ]_vars

\* finish_u32 on X33aU32Php returned a value with bit 31 set while the
\* state has it clear
C6_Witness ==
    /\ acc.kind = "X33aU32Php"
    /\ op = "finish_u32"
    /\ acc.hash[2] < 32768
    /\ ret[2] >= 32768
    /\ fed # <<>>

\* C7: a write of an empty slice is a no-op: the state is unchanged (so
\* are finish and finish_u32), nothing is recorded as written, and the
\* call does not fail.
C7_EmptyWriteIsNoOp ==
    [][ (op' = "write" /\ arglen' = 0) =>
          /\ acc' = acc
          /\ fed' = fed
          /\ IsWord(acc'.hash, Limbs(acc.kind))
          /\ Finish(acc.kind, acc'.hash) = Finish(acc.kind, acc.hash) ]_vars

\* an empty write to a salted X33a that had bytes written before
C7_Witness ==
    /\ acc.kind = "X33a"
    /\ op = "write"
    /\ arglen = 0
    /\ ctor = "new_with_salt"
    /\ fed # <<>>

\* C8: construction sets the state exactly.  Right after new() the state
\* is 5381, right after new_with_salt(s) it is s, whatever s is (0 and
\* 2^w - 1 included), and it is a word: nothing is validated or rejected.
\* So an accumulator built by new_with_salt(5381) is at all times in the
\* state of one built by new() and fed the same bytes, and the other way
\* round.
C8_ConstructionSetsState ==
    LET k == acc.kind
        n == Limbs(acc.kind)
    IN
    /\ op = "construct" =>
          /\ IsWord(acc.hash, n)
          /\ ctor = "new" => acc.hash = Lit(5381, n)
          /\ ctor = "new_with_salt" => acc.hash = salt
    /\ (ctor = "new_with_salt" /\ salt = Lit(5381, n)) =>
          /\ acc.hash = Write(k, New(k), fed)
          /\ op = "finish" => ret = Finish(k, Write(k, New(k), fed))
    /\ (ctor = "new" /\ k \in KindsSalted) =>
          /\ acc.hash = Write(k, NewWithSalt(k, Lit(5381, n)), fed)
          /\ op = "finish" =>
                ret = Finish(k, Write(k, NewWithSalt(k, Lit(5381, n)), fed))

\* X33x right after new_with_salt(0)
C8_Witness ==
    /\ acc.kind = "X33x"
    /\ op = "construct"
    /\ ctor = "new_with_salt"
    /\ salt = Lit(0, LimbsU64)
    /\ acc.hash = <<0, 0, 0, 0>>

\* C9: high-bit forcing on X33aU32Php.  Whatever the seed and the bytes,
\* finish_u32 has bit 31 set, so it is at least 2^31 and not 0, and it is
\* the 32-bit additive state with bit 31 set; from the default seed,
\* [69, 122] and [70, 89] both give 2153345956.
C9_HighBitForced ==
    acc.kind = "X33aU32Php" =>
        LET h == RefFoldAdd(Seed, fed)
            r == FinishU32(acc.kind, acc.hash)
        IN  /\ IsWord(r, LimbsU32)
            /\ r[2] >= 32768
            /\ r # <<0, 0>>
            /\ r[1] = h[1]
            /\ r[2] = IF h[2] >= 32768 THEN h[2] ELSE h[2] + 32768
            /\ op = "finish_u32" => ret = r
            /\ (ctor = "new" /\ fed \in {<<69, 122>>, <<70, 89>>}) =>
                  r = <<29604, 32857>>

\* finish_u32 after [70, 89] from the default seed returned 2153345956
C9_Witness ==
    /\ acc.kind = "X33aU32Php"
    /\ op = "finish_u32"
    /\ ctor = "new"
    /\ fed = <<70, 89>>
    /\ ret = <<29604, 32857>>

\* C10: on the 32-bit hashers (X33aU32, X33xU32, X33aU32Php) finish is
\* finish_u32 zero-extended: the low 32 bits are those of finish_u32 and
\* bits 32..63 are 0, in every reachable state; on X33aU32Php both have
\* bit 31 set.
C10_FinishIsFinishU32Widened ==
    acc.kind \in KindsU32 =>
        LET r64 == Finish(acc.kind, acc.hash)
            r32 == FinishU32(acc.kind, acc.hash)
        IN  /\ IsWord(r64, LimbsU64)
            /\ IsWord(r32, LimbsU32)
            /\ r64[1] = r32[1]
            /\ r64[2] = r32[2]
            /\ r64[3] = 0
            /\ r64[4] = 0
            /\ op = "finish" => ret = r64
            /\ op = "finish_u32" => ret = r32
            /\ acc.kind = "X33aU32Php" => (r64[2] >= 32768 /\ r32[2] >= 32768)

\* finish on X33aU32Php returned a value with bit 31 set and bits 32..63
\* clear while the state has bit 31 clear
C10_Witness ==
    /\ acc.kind = "X33aU32Php"
    /\ op = "finish"
    /\ acc.hash[2] < 32768
    /\ ret[2] >= 32768
    /\ ret[3] = 0
    /\ ret[4] = 0

\* C11: known values from the default seed.  finish of X33a after
\* [69, 122] and after [70, 89] is 5862308 both times (a collision);
\* finish of X33x after the same inputs is 5861786 and 5861914 (none).
C11_KnownValues ==
    LET r == Finish(acc.kind, acc.hash) IN
    /\ (acc.kind = "X33a" /\ ctor = "new" /\ fed \in {<<69, 122>>, <<70, 89>>}) =>
          /\ r = <<29604, 89, 0, 0>>
          /\ op = "finish" => ret = <<29604, 89, 0, 0>>
    /\ (acc.kind = "X33x" /\ ctor = "new" /\ fed = <<69, 122>>) =>
          /\ r = <<29082, 89, 0, 0>>
          /\ op = "finish" => ret = <<29082, 89, 0, 0>>
    /\ (acc.kind = "X33x" /\ ctor = "new" /\ fed = <<70, 89>>) =>
          /\ r = <<29210, 89, 0, 0>>
          /\ r # <<29082, 89, 0, 0>>
          /\ op = "finish" => ret = <<29210, 89, 0, 0>>

\* finish of X33x::new() after "FY" returned 5861914
C11_Witness ==
    /\ acc.kind = "X33x"
    /\ ctor = "new"
    /\ fed = <<70, 89>>
    /\ op = "finish"
    /\ ret = <<29210, 89, 0, 0>>

\* the other of the two colliding inputs
Collides(bytes) == IF bytes = <<69, 122>> THEN <<70, 89>> ELSE <<69, 122>>

\* C12: the collision of [69, 122] and [70, 89] persists across salts.
\* An X33a or X33aU32 accumulator built with any salt k and fed one of
\* the two inputs reports what a fresh accumulator with the same salt
\* reports after the other input; with k = 5387 that is 5868842.
C12_CollisionAcrossSalts ==
    (/\ acc.kind \in {"X33a", "X33aU32"}
     /\ ctor = "new_with_salt"
     /\ fed \in {<<69, 122>>, <<70, 89>>}) =>
        LET k == acc.kind
            other == Write(k, NewWithSalt(k, salt), Collides(fed))
        IN  /\ Finish(k, acc.hash) = Finish(k, other)
            /\ k = "X33aU32" => FinishU32(k, acc.hash) = FinishU32(k, other)
            /\ op = "finish" => ret = Finish(k, other)
            /\ op = "finish_u32" => ret = FinishU32(k, other)
            /\ salt = Lit(5387, Limbs(k)) =>
                  Finish(k, acc.hash) = <<36138, 89, 0, 0>>

\* finish of X33a::new_with_salt(5387) after "Ez" returned 5868842
C12_Witness ==
    /\ acc.kind = "X33a"
    /\ ctor = "new_with_salt"
    /\ salt = <<5387, 0, 0, 0>>
    /\ fed = <<69, 122>>
    /\ op = "finish"
    /\ ret = <<36138, 89, 0, 0>>

\* the bytes that follow the colliding pair: nothing, one byte, or "pie"
Suffixes == {<<>>, <<112, 105, 101>>} \cup { <<b>> : b \in Bytes }

\* C13: a shared prefix and suffix keep the collision.  On the additive
\* hashers, from the state a constructor or a write of any prefix p left
\* (whatever the seed; a read leaves the same state), writing
\* [69, 122] ++ q and writing [70, 89] ++ q leave the same state and the
\* same results; from the default seed "abcEzpie" and "abcFYpie" both
\* give 7572149288326856 on X33a and 1686394568 on X33aU32.
C13_CollisionKeepsPrefixSuffix ==
    acc.kind \in KindsAdditive =>
        LET k == acc.kind IN
        /\ op \in {"construct", "write"} =>
              \A q \in Suffixes :
                  LET x == Write(k, acc.hash, <<69, 122>> \o q)
                      y == Write(k, acc.hash, <<70, 89>> \o q)
                  IN  /\ x = y
                      /\ Finish(k, x) = Finish(k, y)
        /\ (ctor = "new" /\ fed \in Texts) =>
              /\ \A t \in Texts : acc.hash = Write(k, New(k), t)
              /\ k = "X33a" => Finish(k, acc.hash) = <<22216, 25732, 59092, 26>>
              /\ k = "X33aU32" =>
                    /\ Finish(k, acc.hash) = <<22216, 25732, 0, 0>>
                    /\ FinishU32(k, acc.hash) = <<22216, 25732>>
              /\ (k = "X33a" /\ op = "finish") => ret = <<22216, 25732, 59092, 26>>

\* finish of X33a::new() after "abcFYpie" returned 7572149288326856
C13_Witness ==
    /\ acc.kind = "X33a"
    /\ ctor = "new"
    /\ fed = <<97, 98, 99, 70, 89, 112, 105, 101>>
    /\ op = "finish"
    /\ ret = <<22216, 25732, 59092, 26>>

\* C14: Djbx33a is X33a built by new().  After every call, a Djbx33a
\* accumulator has the state and the finish value that X33a::new() has
\* after one write of the same bytes, an X33a built by new() has those of
\* Djbx33a, and the next step of the two agrees for every byte.
C14_Djbx33aIsX33a ==
    /\ acc.kind = "Djbx33a" =>
          LET x == X33a_write(X33a_new, fed) IN
          /\ acc.hash = x
          /\ Djbx33a_finish(acc.hash) = X33a_finish(x)
          /\ op = "finish" => ret = X33a_finish(x)
          /\ \A b \in Bytes : Djbx33a_step(acc.hash, b) = X33a_step(x, b)
    /\ (acc.kind = "X33a" /\ ctor = "new") =>
          LET d == Djbx33a_write(Djbx33a_new, fed) IN
          /\ acc.hash = d
          /\ X33a_finish(acc.hash) = Djbx33a_finish(d)
          /\ op = "finish" => ret = Djbx33a_finish(d)

\* finish of Djbx33a after two writes of one byte each, "E" then "z",
\* returned 5862308
C14_Witness ==
    /\ acc.kind = "Djbx33a"
    /\ fed = <<69, 122>>
    /\ op = "finish"
    /\ ret = <<29604, 89, 0, 0>>

----------------------------------------------------------------------------
(* Two accumulators and the caller that compares them.  rel names how the  *)
(* second was built from the first:                                        *)
(*   "same"   both by the same constructor with the same salt              *)
(*   "flip31" both X33aU32Php, the salts differing in bit 31               *)
(*   "trunc"  a 64-bit hasher and its 32-bit counterpart, the second       *)
(*            salted with the low 32 bits of the first's salt              *)
(*   "resume" the second is built later, by new_with_salt from the value   *)
(*            the first reports                                            *)

\* the byte values fed to a pair
PairBytes == {0, 69, 255}

PairByteSeqs(n) == UNION { [1..m -> PairBytes] : m \in 0..n }

\* 64-bit salts: those of one accumulator and two with bits above bit 31
WideSalts == SaltsU64 \cup { <<5381, 0, 1, 0>>, <<0, 32768, 65535, 0>> }

\* `k as u32` for a u64 k: the low 32 bits
U64AsU32(x) == <<x[1], x[2]>>

Fresh(k, h) == [kind |-> k, hash |-> h, fed |-> <<>>]

\* finish_u32 where the hasher has it, finish otherwise
NativeResult(k, hash) ==
    IF k \in KindsU32 THEN FinishU32(k, hash) ELSE Finish(k, hash)

PairInit ==
    /\ acc = [kind |-> "X33a", hash |-> X33a_new]
    /\ ctor = "new"
    /\ salt = <<>>
    /\ fed = <<>>
    /\ arglen = 0
    /\ op = "construct"
    /\ ret = <<>>
    /\ psplit = -1
    /\ \/ /\ rel = "same"
          /\ \E k \in Kinds :
                \/ /\ pseed = <<>>
                   /\ pa = Fresh(k, New(k))
                   /\ pb = Fresh(k, New(k))
                \/ /\ k \in KindsSalted
                   /\ \E s \in Salts(k) :
                         /\ pseed = s
                         /\ pa = Fresh(k, NewWithSalt(k, s))
                         /\ pb = Fresh(k, NewWithSalt(k, s))
       \/ /\ rel = "flip31"
          /\ \E s \in SaltsU32 :
                /\ pseed = s
                /\ pa = Fresh("X33aU32Php", NewWithSalt("X33aU32Php", s))
                /\ pb = Fresh("X33aU32Php",
                              NewWithSalt("X33aU32Php", BitXor(s, HighBit)))
       \/ /\ rel = "trunc"
          /\ \E fam \in { <<"X33a", "X33aU32">>, <<"X33x", "X33xU32">> } :
                \/ /\ pseed = <<>>
                   /\ pa = Fresh(fam[1], New(fam[1]))
                   /\ pb = Fresh(fam[2], New(fam[2]))
                \/ \E s \in WideSalts :
                      /\ pseed = s
                      /\ pa = Fresh(fam[1], NewWithSalt(fam[1], s))
                      /\ pb = Fresh(fam[2], NewWithSalt(fam[2], U64AsU32(s)))
       \/ /\ rel = "resume"
          /\ \E k \in KindsSalted :
                /\ pb = Fresh(k, Panic)
                /\ \/ /\ pseed = <<>>
                      /\ pa = Fresh(k, New(k))
                   \/ \E s \in Salts(k) :
                         /\ pseed = s
                         /\ pa = Fresh(k, NewWithSalt(k, s))

\* x.write(bytes) on one accumulator of the pair
PWrite(x, bytes) ==
    [x EXCEPT !.hash = Write(x.kind, x.hash, bytes), !.fed = x.fed \o bytes]

\* the first accumulator is written alone
PWriteA ==
    \E bytes \in PairByteSeqs(MaxChunk) :
        /\ rel = "same" \/ (rel = "resume" /\ psplit = -1)
        /\ Len(pa.fed) + Len(bytes) <= MaxPairFed
        /\ pa' = PWrite(pa, bytes)
        /\ UNCHANGED <<acc, ctor, salt, fed, arglen, op, ret>>
        /\ UNCHANGED <<rel, pb, pseed, psplit>>

\* bug: the hash is one value shared by every accumulator
PWriteB_Shared ==
    \E bytes \in PairByteSeqs(MaxChunk) :
        /\ rel = "same"
        /\ Len(pb.fed) + Len(bytes) <= MaxPairFed
        /\ pb' = [pb EXCEPT !.hash = Write(pb.kind, pa.hash, bytes),
                            !.fed = pb.fed \o bytes]
        /\ UNCHANGED <<acc, ctor, salt, fed, arglen, op, ret>>
        /\ UNCHANGED <<rel, pa, pseed, psplit>>

\* the second accumulator is written alone
PWriteB ==
    \E bytes \in PairByteSeqs(MaxChunk) :
        /\ rel = "same"
        /\ Len(pb.fed) + Len(bytes) <= MaxPairFed
        /\ pb' = PWrite(pb, bytes)
        /\ UNCHANGED <<acc, ctor, salt, fed, arglen, op, ret>>
        /\ UNCHANGED <<rel, pa, pseed, psplit>>

\* the same slice is written to both
PWriteBoth ==
    \E bytes \in PairByteSeqs(MaxChunk) :
        /\ rel \in {"flip31", "trunc"} \/ (rel = "resume" /\ psplit >= 0)
        /\ Len(pa.fed) + Len(bytes) <= MaxPairFed
        /\ pa' = PWrite(pa, bytes)
        /\ pb' = PWrite(pb, bytes)
        /\ UNCHANGED <<acc, ctor, salt, fed, arglen, op, ret>>
        /\ UNCHANGED <<rel, pseed, psplit>>

\* one of the texts of the examples is written to both, fresh
PWriteBothText ==
    \E bytes \in Texts :
        /\ rel \in {"flip31", "trunc"}
        /\ pa.fed = <<>>
        /\ pb.fed = <<>>
        /\ pa' = PWrite(pa, bytes)
        /\ pb' = PWrite(pb, bytes)
        /\ UNCHANGED <<acc, ctor, salt, fed, arglen, op, ret>>
        /\ UNCHANGED <<rel, pseed, psplit>>

\* let b = <hasher>::new_with_salt(a.finish_u32()), or a.finish() on a
\* 64-bit hasher
PResume ==
    /\ rel = "resume"
    /\ psplit = -1
    /\ pb' = Fresh(pa.kind,
                   NewWithSalt(pa.kind, NativeResult(pa.kind, pa.hash)))
    /\ psplit' = Len(pa.fed)
    /\ UNCHANGED <<acc, ctor, salt, fed, arglen, op, ret>>
    /\ UNCHANGED <<rel, pa, pseed>>

PairNext == PWriteA \/ PWriteB \/ PWriteBoth \/ PWriteBothText \/ PResume

SpecPair == PairInit /\ [][PairNext]_vars

C16_TruncationRefines ==
    rel = "trunc" =>
        /\ FinishU32(pb.kind, pb.hash) = U64AsU32(Finish(pa.kind, pa.hash))
        /\ pb.hash = U64AsU32(pa.hash)
        /\ (pa.kind = "X33a" /\ pseed = <<>>
              /\ pa.fed = <<97, 98, 99, 69, 122, 112, 105, 101>>) =>
              /\ Finish(pa.kind, pa.hash) = <<22216, 25732, 59092, 26>>
              /\ FinishU32(pb.kind, pb.hash) = <<22216, 25732>>

\* X33x against X33xU32 from the salt 2^64 - 1, bytes written: the 64-bit
\* state has bits above bit 31 that the 32-bit one has dropped
C16_Witness ==
    /\ rel = "trunc"
    /\ pa.kind = "X33x"
    /\ pb.kind = "X33xU32"
    /\ pseed = <<65535, 65535, 65535, 65535>>
    /\ pa.fed = <<255, 69>>
    /\ pb.fed = <<255, 69>>
    /\ pa.hash[3] # 0
    /\ FinishU32(pb.kind, pb.hash) = U64AsU32(Finish(pa.kind, pa.hash))

\* C17: a hasher can be resumed from its own native-width result.  For
\* X33a, X33x, X33aU32, X33xU32 and X33aU32Php, a second hasher built by
\* new_with_salt(r), r being finish (64-bit) or finish_u32 (32-bit) of the
\* first after its first bytes, reports the same finish / finish_u32 as
\* the first once the same further bytes are written to both; on
\* X33aU32Php although r has bit 31 set and the state may not.
C17_ResumeFromResult ==
    (rel = "resume" /\ psplit >= 0) =>
        /\ NativeResult(pa.kind, pa.hash) = NativeResult(pb.kind, pb.hash)
        /\ Finish(pa.kind, pa.hash) = Finish(pb.kind, pb.hash)

\* X33aU32Php resumed after one byte and then written again: the states
\* differ, the first lacking bit 31
C17_Witness ==
    /\ rel = "resume"
    /\ pa.kind = "X33aU32Php"
    /\ psplit = 1
    /\ Len(pb.fed) = 1
    /\ pa.hash # pb.hash
    /\ pa.hash[LimbsU32] < 32768
    /\ FinishU32(pa.kind, pa.hash) = FinishU32(pb.kind, pb.hash)

\* C18: on X33aU32Php bit 31 of the salt reaches no output.  Hashers built
\* by new_with_salt(k) and new_with_salt(k ^ 0x80000000) and given the
\* same bytes (none included) have states that differ in bit 31 only and
\* return equal finish_u32 and equal finish, each with bit 31 set; so at
\* most 2^31 salts are told apart and at most 2^31 outputs occur.
C18_SaltBit31Ignored ==
    rel = "flip31" =>
        /\ FinishU32(pa.kind, pa.hash) = FinishU32(pb.kind, pb.hash)
        /\ Finish(pa.kind, pa.hash) = Finish(pb.kind, pb.hash)
        /\ pa.hash = BitXor(pb.hash, HighBit)
        /\ FinishU32(pa.kind, pa.hash)[LimbsU32] >= 32768

\* the salts 5387 and 5387 ^ 0x80000000, two bytes written to each
C18_Witness ==
    /\ rel = "flip31"
    /\ pseed = <<5387, 0>>
    /\ pa.fed = <<69, 255>>
    /\ pb.fed = <<69, 255>>
    /\ pa.hash # pb.hash
    /\ FinishU32(pa.kind, pa.hash) = FinishU32(pb.kind, pb.hash)

====
